---- MODULE Spec2Model ----
(***************************************************************************)
(* OpenVINOModel (deepchem/models/openvino_model.py): the adapter that     *)
(* forwards batches of a generator to the asynchronous request pool of the *)
(* inference engine and collects the predictions in self.outputs.          *)
(*                                                                         *)
(* The caller is single threaded; the engine completes submitted requests  *)
(* on its own (action Complete), between any two steps of __call__.        *)
(* A tensor is a sequence of rows, a row is an integer: RowVal(c, k, i) is *)
(* row i of batch k of the generator of call c, 0 is a row of zeros.       *)
(* The network works row by row: the output row for input row x is         *)
(* Pred(x).  An entry of self.outputs holds what the output blob held when *)
(* it was read.  The caller's generator yields a batch when it is asked    *)
(* for one.  Slot ids and inp_id are zero based as in the code; TLA+       *)
(* sequences are one based, so python index i of a list is i + 1 here.     *)
(***************************************************************************)
EXTENDS Integers, Sequences, FiniteSets

\* ---- bounds of the model: request slots of a loaded network, batches the
\* caller's generators yield over all calls, rows of a full batch, calls
MaxRequests == 2
MaxBatches == 2
BatchSize == 2
MaxCalls == 2

VARIABLES
  pc,              \* position of the caller: "new", "idle", or a place in __call__
  available,       \* module global is_available
  modelKind,       \* "torch" or "tf": what self.model is
  model_dir,       \* the files in self.model_dir
  ie,              \* self.ie
  exec_net,        \* self.exec_net
  slots,           \* self.exec_net.requests: slot id -> [busy, inp, out]
  outputs,         \* self.outputs
  infer_request_input_id, \* local of __call__
  inp_id,          \* local of __call__: index of the batch being handled
  inputs,          \* local of __call__: the (padded) tensor of the batch
  last_batch_size, \* local of __call__
  rid,             \* local of __call__: infer_request_id
  buf1,            \* tee of _read_torch_model: pending items of `generator`
  buf2,            \* tee of __call__: pending items of `generator`
  returned,        \* the generator __call__ returned, as what it will yield
  lastOp,          \* the operation that ended last
  err,             \* how it ended: "none" or the exception raised
  popped,          \* the value the last __next__ returned
  hist             \* history: what the claims need to remember

vars == <<pc, available, modelKind, model_dir, ie, exec_net, slots, outputs,
          infer_request_input_id, inp_id, inputs, last_batch_size, rid,
          buf1, buf2, returned, lastOp, err, popped, hist>>

\* ---- values

NoNet == "None"
Loaded == "ExecutableNetwork"

None == [isNone |-> TRUE, rows |-> <<>>]
Some(t) == [isNone |-> FALSE, rows |-> t]

Unbound == -1

Min(a, b) == IF a < b THEN a ELSE b

RowVal(c, k, i) == 100 * c + 10 * k + i

MkBatch(c, k, r) == [i \in 1..r |-> RowVal(c, k, i)]

\* the number of rows of a batch: one short of batch_size, batch_size, or one
\* more (which __call__ rejects)
BatchRows == {r \in {BatchSize - 1, BatchSize, BatchSize + 1} : r >= 1}

\* ---- the engine

Pred(x) == x + 1000

Infer(t) == [i \in 1..Len(t) |-> Pred(t[i])]

\* output blobs of a freshly loaded network: memory nobody wrote yet
BlobInits == {0, -1}

NewSlots(n, b) ==
  [s \in 0..(n - 1) |->
     [busy |-> FALSE, inp |-> <<>>, out |-> [i \in 1..BatchSize |-> b]]]

IdleIds(sl) == {s \in DOMAIN sl : ~sl[s].busy}

\* get_idle_request_id: an idle slot, or -1 when there is none
IdleRequestIds(sl) == IF IdleIds(sl) = {} THEN {-1} ELSE IdleIds(sl)

AsyncInfer(sl, s, t) == [sl EXCEPT ![s] = [busy |-> TRUE, inp |-> t, out |-> @.out]]

\* ---- pieces of _load_model and _read_torch_model

\* the assertion left out
AssertSkipped(av) == TRUE

\* assert (self.is_available()): whether the assertion passes
AssertAvailable(av) == av

\* model.pb removed whether or not the converter failed
ReadTfModelCleansUp(dir, toolOk) ==
  LET written == dir \cup {"model.pb"}
      converted == written \cup {"model.xml", "model.bin"}
  IN IF toolOk
     THEN [dir |-> converted \ {"model.pb"}, err |-> "none",
           steps |-> <<"write", "run", "remove", "read">>]
     ELSE [dir |-> written \ {"model.pb"}, err |-> "CalledProcessError",
           steps |-> <<"write", "run", "remove">>]

\* _read_tf_model, from "Save frozen graph" on: write model.pb, run the
\* converter with check=True, remove model.pb, read model.xml and model.bin.
\* The files of model_dir afterwards, the exception raised and the steps done.
ReadTfModel(dir, toolOk) ==
  LET written == dir \cup {"model.pb"}
      converted == written \cup {"model.xml", "model.bin"}
  IN IF toolOk
     THEN [dir |-> converted \ {"model.pb"}, err |-> "none",
           steps |-> <<"write", "run", "remove", "read">>]
     ELSE [dir |-> written, err |-> "CalledProcessError",
           steps |-> <<"write", "run">>]

\* the first batch taken from the generator itself, with no tee
ReadTorchModelNoTee(first) == <<>>

\* itertools.tee and next(generator_copy), which yields batch first: what
\* the tee holds buffered for `generator`
ReadTorchModel(first) == <<first>>

\* ---- pieces of __call__

\* the network loaded on every call
NeedsLoadAlways(en) == TRUE

\* if not self.exec_net
NeedsLoad(en) == en = NoNet

\* the batch submitted as it is
PadSkipped(x) == x

Pad(x) ==
  IF Len(x) # BatchSize
  THEN [i \in 1..BatchSize |-> IF i <= Len(x) THEN x[i] ELSE 0]
  ELSE x

Trim(output, n) == SubSeq(output, 1, Min(n, Len(output)))

PyIndex(list, i) == IF i >= 0 THEN i + 1 ELSE Len(list) + i + 1

\* the slot reused without copying its output
CopyOutputSkipped(outs, out_id, buffer) == outs

CopyOutput(outs, out_id, buffer) ==
  IF out_id # -1 THEN [outs EXCEPT ![out_id + 1] = Some(buffer)] ELSE outs

\* waiting again after a second negative id
AfterSecondPollRetry(id) == IF id < 0 THEN "wait1" ELSE "submit"

AfterSecondPoll(id) == IF id < 0 THEN "raise" ELSE "submit"

AfterWaitAll(ok) == IF ~ok THEN "raise" ELSE "drain"

\* for infer_request_id, out_id in enumerate(infer_request_input_id): the list
\* after the loop, the exception that ended it, and the slots whose output
\* blob it read
RECURSIVE CopyRest(_, _, _, _, _, _)
CopyRest(s, outs, iri, sl, lbs, reads) ==
  IF s \notin DOMAIN iri
  THEN [outs |-> outs, err |-> "none", reads |-> reads]
  ELSE LET out_id == iri[s]
           idx == PyIndex(outs, out_id)
       IN IF idx \notin 1..Len(outs)
          THEN [outs |-> outs, err |-> "IndexError", reads |-> reads]
          ELSE IF outs[idx].isNone
               THEN IF out_id = Len(outs) - 1
                    THEN IF lbs = Unbound
                         THEN [outs |-> outs, err |-> "NameError",
                               reads |-> reads \cup {s}]
                         ELSE CopyRest(s + 1,
                                [outs EXCEPT ![idx] = Some(Trim(sl[s].out, lbs))],
                                iri, sl, lbs, reads \cup {s})
                    ELSE CopyRest(s + 1,
                           [outs EXCEPT ![idx] = Some(sl[s].out)],
                           iri, sl, lbs, reads \cup {s})
               ELSE CopyRest(s + 1, outs, iri, sl, lbs, reads)

\* what the tee'd `generator` yields once generator_copy is exhausted
ReturnedGenerator(b2, b1) == b2 \o b1

Pop0(list) == [value |-> Head(list), rest |-> Tail(list)]

\* ---- history

\* ncalls: __call__s started; loads: _load_model invocations; total: batches
\* the generators have yielded in all calls; gen: the batches the generator
\* passed to the last __call__ has yielded; q0: len(self.outputs) when it
\* started; ok: it returned normally; nfetch, nsub: batches it took from
\* generator_copy and requests it submitted; polls, waits: calls of
\* get_idle_request_id and wait for the current batch; status: what the last
\* wait returned; early: an output blob was read while its request was
\* running; pend: the batch each entry of self.outputs was appended for;
\* poppedOf: the batch of the entry the last __next__ returned
NoHist ==
  [ncalls |-> 0, loads |-> 0, total |-> 0, gen |-> <<>>, q0 |-> 0, ok |-> FALSE,
   nfetch |-> 0, nsub |-> 0, polls |-> 0, waits |-> 0, status |-> "none",
   early |-> FALSE, pend |-> <<>>, poppedOf |-> <<>>, tfsteps |-> <<>>]

StartCall(h, g, q, loading) ==
  [h EXCEPT !.ncalls = @ + 1, !.loads = IF loading THEN @ + 1 ELSE @,
            !.total = @ + Len(g),
            !.gen = g, !.q0 = q, !.ok = FALSE, !.nfetch = 0, !.nsub = 0,
            !.polls = 0, !.waits = 0, !.status = "none", !.tfsteps = <<>>]

\* The caller's generator yields its batches one at a time: a batch exists
\* once the generator is asked for it.  The batches it may yield next in
\* call h.ncalls (or h.ncalls + 1, at the start of a call), after k batches
\* of this call; it may also be exhausted.
Yields(h, c, k) ==
  IF h.total < MaxBatches THEN {MkBatch(c, k, r) : r \in BatchRows} ELSE {}

\* ---- the state before the constructor has run

Init ==
  /\ pc = "new"
  /\ available \in BOOLEAN
  /\ modelKind \in {"torch", "tf"}
  /\ model_dir = {}
  /\ ie = "None"
  /\ exec_net = NoNet
  /\ slots = <<>>
  /\ outputs = <<>>
  /\ infer_request_input_id = <<>>
  /\ inp_id = 0
  /\ inputs = <<>>
  /\ last_batch_size = Unbound
  /\ rid = -1
  /\ buf1 = <<>>
  /\ buf2 = <<>>
  /\ returned = <<>>
  /\ lastOp = "none"
  /\ err = "none"
  /\ popped = None
  /\ hist = NoHist

locals == <<infer_request_input_id, inp_id, inputs, last_batch_size, rid,
            buf1, buf2>>

ResetLocals ==
  /\ infer_request_input_id' = <<>>
  /\ inp_id' = 0
  /\ inputs' = <<>>
  /\ last_batch_size' = Unbound
  /\ rid' = -1
  /\ buf1' = <<>>
  /\ buf2' = <<>>

\* __call__ ends with exception e
Raise(e) ==
  /\ pc' = "idle"
  /\ lastOp' = "call"
  /\ err' = e
  /\ returned' = <<>>
  /\ ResetLocals

\* __init__
Construct ==
  /\ pc = "new"
  /\ pc' = "idle"
  /\ ie' = IF available THEN "IECore" ELSE "None"
  /\ exec_net' = NoNet
  /\ outputs' = <<>>
  /\ lastOp' = "init"
  /\ err' = "none"
  /\ UNCHANGED <<available, modelKind, model_dir, slots, locals, returned,
                 popped, hist>>

\* __call__, up to the head of the for loop; _load_model when exec_net is unset
CallLoadFails ==
  /\ NeedsLoad(exec_net)
  /\ \/ /\ ~AssertAvailable(available)
        /\ Raise("AssertionError")
        /\ hist' = StartCall(hist, <<>>, Len(outputs), TRUE)
        /\ UNCHANGED model_dir
     \/ /\ AssertAvailable(available)
        /\ modelKind = "torch"
        /\ Raise("StopIteration")
        /\ hist' = StartCall(hist, <<>>, Len(outputs), TRUE)
        /\ UNCHANGED model_dir
     \/ /\ AssertAvailable(available)
        /\ modelKind = "tf"
        /\ LET r == ReadTfModel(model_dir, FALSE)
           IN /\ r.err # "none"
              /\ Raise(r.err)
              /\ model_dir' = r.dir
              /\ hist' = [StartCall(hist, <<>>, Len(outputs), TRUE)
                           EXCEPT !.tfsteps = r.steps]
  /\ UNCHANGED <<available, modelKind, ie, exec_net, slots, outputs, popped>>

EnterLoop(b1, sl) ==
  /\ infer_request_input_id' = [i \in DOMAIN sl |-> -1]
  /\ inp_id' = 0
  /\ inputs' = <<>>
  /\ last_batch_size' = Unbound
  /\ rid' = -1
  /\ buf1' = b1
  /\ buf2' = <<>>
  /\ pc' = "loop"
  /\ UNCHANGED <<available, modelKind, ie, outputs, returned, lastOp, err, popped>>

CallLoads ==
  /\ NeedsLoad(exec_net)
  /\ AssertAvailable(available)
  /\ exec_net' = Loaded
  /\ \E n \in 1..MaxRequests, b \in BlobInits :
       /\ slots' = NewSlots(n, b)
       /\ \/ /\ modelKind = "torch"
             /\ \E first \in Yields(hist, hist.ncalls + 1, 0) :
                  /\ hist' = StartCall(hist, <<first>>, Len(outputs), TRUE)
                  /\ EnterLoop(ReadTorchModel(first), slots')
             /\ UNCHANGED model_dir
          \/ /\ modelKind = "tf"
             /\ LET r == ReadTfModel(model_dir, TRUE)
                IN /\ r.err = "none"
                   /\ model_dir' = r.dir
                   /\ hist' = [StartCall(hist, <<>>, Len(outputs), TRUE)
                                EXCEPT !.tfsteps = r.steps]
             /\ EnterLoop(<<>>, slots')

CallLoaded ==
  /\ ~NeedsLoad(exec_net)
  /\ hist' = StartCall(hist, <<>>, Len(outputs), FALSE)
  /\ UNCHANGED <<exec_net, slots, model_dir>>
  /\ EnterLoop(<<>>, slots)

Call ==
  /\ pc = "idle"
  /\ hist.ncalls < MaxCalls
  /\ \/ CallLoadFails
     \/ CallLoads
     \/ CallLoaded

\* for inp_id, batch in enumerate(generator_copy): ... get_idle_request_id()
NextBatch ==
  /\ pc = "loop"
  /\ \/ /\ buf1 = <<>>
        /\ pc' = "waitall"
        /\ hist' = [hist EXCEPT !.polls = 0, !.waits = 0]
        /\ UNCHANGED <<locals, returned, lastOp, err>>
     \/ \E batch \in IF buf1 # <<>> THEN {Head(buf1)}
                     ELSE Yields(hist, hist.ncalls, Len(hist.gen)) :
          LET h == IF buf1 # <<>> THEN hist
                   ELSE [hist EXCEPT !.gen = Append(@, batch), !.total = @ + 1]
          IN \/ /\ Len(batch) > BatchSize
                /\ Raise("AssertionError")
                /\ hist' = [h EXCEPT !.nfetch = @ + 1, !.polls = 0, !.waits = 0]
             \/ /\ Len(batch) <= BatchSize
                /\ buf1' = IF buf1 # <<>> THEN Tail(buf1) ELSE buf1
                /\ buf2' = Append(buf2, batch)
                /\ last_batch_size' = Len(batch)
                /\ inputs' = Pad(batch)
                /\ hist' = [h EXCEPT !.nfetch = @ + 1, !.polls = 1, !.waits = 0]
                /\ \E id \in IdleRequestIds(slots) :
                     /\ rid' = id
                     /\ pc' = IF id < 0 THEN "wait1" ELSE "submit"
                /\ UNCHANGED <<infer_request_input_id, inp_id, returned,
                               lastOp, err>>
  /\ UNCHANGED <<available, modelKind, model_dir, ie, exec_net, slots, outputs,
                 popped>>

\* status = self.exec_net.wait(num_requests=1) and the second poll
WaitOne ==
  /\ pc = "wait1"
  /\ \/ /\ hist' = [hist EXCEPT !.waits = @ + 1, !.status = "FAIL"]
        /\ Raise("WaitFailed")
     \/ /\ hist' = [hist EXCEPT !.waits = @ + 1, !.polls = @ + 1,
                             !.status = "OK"]
        /\ \E id \in IdleIds(slots) \cup {-1} :
             \/ /\ AfterSecondPoll(id) = "raise"
                /\ Raise("InvalidRequestId")
             \/ /\ AfterSecondPoll(id) # "raise"
                /\ rid' = id
                /\ pc' = AfterSecondPoll(id)
                /\ UNCHANGED <<infer_request_input_id, inp_id, inputs,
                               last_batch_size, buf1, buf2, returned,
                               lastOp, err>>
  /\ UNCHANGED <<available, modelKind, model_dir, ie, exec_net, slots, outputs,
                 popped>>

\* copy the output of the slot's earlier request, append None, async_infer
Submit ==
  /\ pc = "submit"
  /\ LET out_id == infer_request_input_id[rid]
     IN /\ outputs' = Append(CopyOutput(outputs, out_id, slots[rid].out), None)
        /\ hist' = [hist EXCEPT
                      !.nsub = @ + 1,
                      !.pend = Append(@, hist.gen[inp_id + 1]),
                      !.early = @ \/ (out_id # -1 /\ slots[rid].busy)]
  /\ infer_request_input_id' = [infer_request_input_id EXCEPT ![rid] = inp_id]
  /\ slots' = AsyncInfer(slots, rid, inputs)
  /\ inp_id' = inp_id + 1
  /\ pc' = "loop"
  /\ UNCHANGED <<available, modelKind, model_dir, ie, exec_net, inputs,
                 last_batch_size,
                 rid, buf1, buf2, returned, lastOp, err, popped>>

\* status = self.exec_net.wait()
WaitAll ==
  /\ pc = "waitall"
  /\ \E ok \in BOOLEAN :
       /\ ok => IdleIds(slots) = DOMAIN slots
       /\ hist' = [hist EXCEPT !.status = IF ok THEN "OK" ELSE "FAIL"]
       /\ \/ /\ AfterWaitAll(ok) = "raise"
             /\ Raise("WaitFailed")
          \/ /\ AfterWaitAll(ok) # "raise"
             /\ pc' = AfterWaitAll(ok)
             /\ UNCHANGED <<locals, returned, lastOp, err>>
  /\ UNCHANGED <<available, modelKind, model_dir, ie, exec_net, slots, outputs,
                 popped>>

\* the loop that copies the rest of the outputs, and the return
Drain ==
  /\ pc = "drain"
  /\ LET r == CopyRest(0, outputs, infer_request_input_id, slots,
                       last_batch_size, {})
     IN /\ outputs' = r.outs
        /\ \/ /\ r.err # "none"
              /\ Raise(r.err)
              /\ hist' = [hist EXCEPT
                            !.early = @ \/ \E s \in r.reads : slots[s].busy]
           \/ /\ r.err = "none"
              /\ pc' = "idle"
              /\ lastOp' = "call"
              /\ err' = "none"
              /\ returned' = ReturnedGenerator(buf2, buf1)
              /\ hist' = [hist EXCEPT
                            !.ok = TRUE,
                            !.early = @ \/ \E s \in r.reads : slots[s].busy]
              /\ ResetLocals
  /\ UNCHANGED <<available, modelKind, model_dir, ie, exec_net, slots, popped>>

\* __next__
NextResult ==
  /\ pc = "idle"
  /\ lastOp' = "next"
  /\ \/ /\ outputs = <<>>
        /\ err' = "IndexError"
        /\ UNCHANGED <<outputs, popped, hist>>
     \/ /\ outputs # <<>>
        /\ err' = "none"
        /\ popped' = Pop0(outputs).value
        /\ outputs' = Pop0(outputs).rest
        /\ hist' = [hist EXCEPT !.poppedOf = Head(hist.pend), !.pend = Tail(@)]
  /\ UNCHANGED <<pc, available, modelKind, model_dir, ie, exec_net, slots,
                 locals, returned>>

\* the engine finishes the request of slot s
Complete(s) ==
  /\ slots[s].busy
  /\ slots' = [slots EXCEPT ![s] = [busy |-> FALSE, inp |-> <<>>,
                                    out |-> Infer(@.inp)]]
  /\ UNCHANGED <<pc, available, modelKind, model_dir, ie, exec_net, outputs,
                 locals,
                 returned, lastOp, err, popped, hist>>

Next ==
  \/ Construct
  \/ Call
  \/ NextBatch
  \/ WaitOne
  \/ Submit
  \/ WaitAll
  \/ Drain
  \/ NextResult
  \/ \E s \in DOMAIN slots : Complete(s)

Spec == Init /\ [][Next]_vars

\* ---- what the claims speak of

\* __call__ has returned normally and nothing ran since but __next__
Returned == pc = "idle" /\ hist.ok

\* entry e is a prediction computed from batch b: the engine's output for the
\* padded batch, whole or cut to the batch's rows
IsPredictionOf(e, b) ==
  /\ ~e.isNone
  /\ \/ e.rows = Infer(Pad(b))
     \/ e.rows = SubSeq(Infer(Pad(b)), 1, Len(b))

UsedSlots == {s \in DOMAIN infer_request_input_id : infer_request_input_id[s] # -1}

\* C1: after a __call__ that started on an empty queue has returned, the queue
\* holds one entry per batch of the generator, the k-th computed from the k-th
\* batch, and every __next__ returns the entry of the oldest batch not yet
\* returned.
C1_ResultsInGeneratorOrder ==
  (Returned /\ hist.q0 = 0) =>
    /\ lastOp = "call" => Len(outputs) = Len(hist.gen)
    /\ \A k \in 1..Len(outputs) : IsPredictionOf(outputs[k], hist.pend[k])
    /\ (lastOp = "next" /\ err = "none") => IsPredictionOf(popped, hist.poppedOf)

\* C2: when the last batch of the generator is short, the entry stored for it
\* when __call__ returns is the first r rows of the engine's output for the
\* padded batch.
C2_LastBatchTrimmed ==
  (Returned /\ lastOp = "call" /\ hist.q0 = 0 /\ hist.gen # <<>>) =>
    LET last == hist.gen[Len(hist.gen)]
    IN Len(last) < BatchSize =>
         outputs[Len(outputs)] = Some(SubSeq(Infer(Pad(last)), 1, Len(last)))

\* no network before the first __call__; one _load_model in the first
\* __call__; a network is loaded wherever a request can be submitted
C3_LoadedState ==
  /\ hist.ncalls = 0 => (exec_net = NoNet /\ hist.loads = 0 /\ slots = <<>>)
  /\ hist.ncalls = 1 => hist.loads = 1
  /\ (pc \notin {"new", "idle"} \/ \E s \in DOMAIN slots : slots[s].busy) =>
       (exec_net = Loaded /\ hist.loads >= 1)
  /\ exec_net = Loaded => slots # <<>>

\* a step taken with a network loaded does not run _load_model
C3_NoReload == exec_net = Loaded => (hist.loads' = hist.loads /\ exec_net' = Loaded)

\* C3: the network is loaded lazily and once.  Before the first __call__ no
\* network is loaded; whenever a __call__ is past its start a network is
\* loaded and _load_model has run; the first __call__ runs it exactly once;
\* once a network is loaded no step runs _load_model again.
C3_LazyLoadOnce == []C3_LoadedState /\ [][C3_NoReload]_vars

\* a second __call__ is running on the network the first one loaded
C3_Witness == hist.ncalls = 2 /\ hist.loads = 1 /\ pc = "submit"

\* C4 as stated: with the engine unavailable, the constructor, __call__ and
\* __next__ each end in an assertion failure.
C4_EveryOperationAsserts ==
  (~available /\ lastOp \in {"init", "call", "next"}) => err = "AssertionError"

\* C4 as amended: only _load_model asserts.  With the engine unavailable the
\* constructor succeeds (ie is None, no network, empty queue), every __call__
\* fails in _load_model with an assertion failure before anything else
\* happens, and __next__ fails with IndexError on the queue, which is empty.
C4_OnlyLoadAsserts ==
  ~available =>
    /\ pc \in {"new", "idle"}
    /\ ie = "None" /\ exec_net = NoNet /\ slots = <<>> /\ outputs = <<>>
    /\ lastOp = "init" => err = "none"
    /\ lastOp = "call" =>
         (err = "AssertionError" /\ hist.nfetch = 0 /\ hist.nsub = 0)
    /\ lastOp = "next" => err = "IndexError"

\* a second __call__ has failed in _load_model with the engine unavailable
C4_Witness ==
  ~available /\ lastOp = "call" /\ err = "AssertionError" /\ hist.ncalls = 2

\* C5: the generator __call__ returns yields exactly what the generator passed
\* in would have yielded, from its first batch on.
C5_ReturnedGeneratorReplays == Returned => returned = hist.gen

\* the first __call__ on a PyTorch model has returned
C5_Witness ==
  /\ Returned /\ lastOp = "call"
  /\ modelKind = "torch" /\ hist.ncalls = 1 /\ Len(returned) >= 2

\* C6: a negative idle id leads to exactly one wait for one request and, when
\* that returns OK, exactly one more poll; a failed wait or a second negative
\* id ends __call__ with the current batch not submitted; a failed final wait
\* ends __call__ before the loop that copies the rest of the outputs.
C6_OneWaitOneRetry ==
  /\ hist.polls <= 2 /\ hist.waits <= 1
  /\ pc = "wait1" => (rid < 0 /\ hist.polls = 1 /\ hist.waits = 0)
  /\ pc = "submit" =>
       /\ rid \in DOMAIN slots
       /\ hist.polls = hist.waits + 1
       /\ hist.waits = 1 => hist.status = "OK"
  /\ pc = "drain" => hist.status = "OK"
  /\ (pc = "idle" /\ lastOp = "call" /\ err = "InvalidRequestId") =>
       /\ hist.polls = 2 /\ hist.waits = 1 /\ hist.status = "OK"
       /\ hist.nsub = hist.nfetch - 1
       /\ Len(outputs) = hist.q0 + hist.nsub
  /\ (pc = "idle" /\ lastOp = "call" /\ err = "WaitFailed") =>
       /\ hist.status = "FAIL"
       /\ Len(outputs) = hist.q0 + hist.nsub
       /\ \/ hist.waits = 1 /\ hist.polls = 1 /\ hist.nsub = hist.nfetch - 1
          \/ hist.waits = 0 /\ hist.polls = 0 /\ hist.nsub = hist.nfetch

\* the second poll returned a negative id and __call__ raised
C6_Witness ==
  /\ pc = "idle" /\ lastOp = "call" /\ err = "InvalidRequestId"
  /\ hist.nfetch = 2 /\ hist.nsub = 1

\* C7: when __call__ returns, its last wait has returned OK, no request is
\* running, and no entry appended during the call is the None placeholder.
C7_ReturnsWithAllResults ==
  (Returned /\ lastOp = "call") =>
    /\ hist.status = "OK"
    /\ \A s \in DOMAIN slots : ~slots[s].busy
    /\ \A i \in (hist.q0 + 1)..Len(outputs) : ~outputs[i].isNone

\* C8: every tensor given to async_infer has batch_size rows, the rows of the
\* batch followed by rows of zeros; a batch with more rows ends __call__ in an
\* assertion failure with no poll and no submission for it.
C8_SubmittedTensorsPadded ==
  /\ \A s \in DOMAIN slots : slots[s].busy => Len(slots[s].inp) = BatchSize
  /\ \A s \in UsedSlots :
       slots[s].busy =>
         LET b == hist.gen[infer_request_input_id[s] + 1]
         IN /\ Len(b) <= BatchSize
            /\ \A i \in 1..BatchSize :
                 slots[s].inp[i] = IF i <= Len(b) THEN b[i] ELSE 0
  /\ (pc = "idle" /\ lastOp = "call" /\ err = "AssertionError" /\ available) =>
       /\ Len(hist.gen[hist.nfetch]) > BatchSize
       /\ hist.polls = 0
       /\ hist.nsub = hist.nfetch - 1
       /\ Len(outputs) = hist.q0 + hist.nsub

\* a short batch is running, padded with a row of zeros
C8_Witness ==
  \E s \in UsedSlots :
    /\ slots[s].busy
    /\ Len(hist.gen[infer_request_input_id[s] + 1]) < BatchSize
    /\ slots[s].inp[BatchSize] = 0

\* the step that submits a request: the slot is idle, and the output of the
\* batch it ran before in this call is in the queue afterwards
C9_SubmitStep ==
  (pc = "submit" /\ pc' = "loop") =>
    /\ rid \in IdleIds(slots)
    /\ slots'[rid].busy
    /\ LET i == infer_request_input_id[rid]
       IN i # -1 => outputs'[i + 1] = Some(Infer(Pad(hist.gen[i + 1])))

\* C9: a request goes to a slot that is idle; when that slot ran batch i of
\* this call, the engine's output for batch i is at position i of the queue
\* once the request is submitted; no output blob is read while its request
\* is running.
C9_SlotReuseKeepsResults == [](~hist.early) /\ [][C9_SubmitStep]_vars

\* a slot was used a second time in this call
C9_Witness ==
  /\ pc = "loop" /\ hist.q0 = 0
  /\ hist.nsub > Cardinality(UsedSlots)
  /\ ~outputs[1].isNone

\* C10: with fewer batches than slots, the loop that copies the rest of the
\* outputs reads only slots that ran a batch of this call, and the last
\* batch's entry comes from the slot that ran the last batch.
C10_DrainReadsOnlyUsedSlots ==
  (pc = "drain" /\ hist.q0 = 0 /\ inp_id >= 1
     /\ inp_id < Cardinality(DOMAIN slots)) =>
    LET r == CopyRest(0, outputs, infer_request_input_id, slots,
                      last_batch_size, {})
        lastSlot == CHOOSE s \in UsedSlots : infer_request_input_id[s] = inp_id - 1
    IN /\ r.reads \subseteq UsedSlots
       /\ r.outs[Len(outputs)] = Some(Trim(slots[lastSlot].out, last_batch_size))

\* C11: the queue persists between calls.  With one request slot (so that no
\* slot stays unused), when a __call__ returns, the entries it appended follow
\* the ones that were there, the k-th computed from its k-th batch, and a
\* __next__ after it returns the entry of the oldest batch not yet returned.
C11_QueueKeepsOrderAcrossCalls ==
  (Returned /\ Cardinality(DOMAIN slots) = 1) =>
    /\ lastOp = "call" =>
         /\ Len(outputs) = hist.q0 + Len(hist.gen)
         /\ \A k \in 1..Len(hist.gen) :
              IsPredictionOf(outputs[hist.q0 + k], hist.gen[k])
    /\ (lastOp = "next" /\ err = "none") => IsPredictionOf(popped, hist.poppedOf)

\* C12: when a __call__ that started on an empty queue returns, with one
\* request slot, every entry has as many rows as its batch had before
\* padding, whether the batch was the last one or not.
C12_EveryResultTrimmed ==
  (Returned /\ lastOp = "call" /\ hist.q0 = 0
     /\ Cardinality(DOMAIN slots) = 1) =>
    \A k \in 1..Len(outputs) :
      ~outputs[k].isNone => Len(outputs[k].rows) = Len(hist.pend[k])

\* C13: no __next__ returns the None placeholder.
C13_NextNeverReturnsNone ==
  (lastOp = "next" /\ err = "none") => ~popped.isNone

\* C14: a __call__ that the engine did not fail (no failed wait, no negative
\* id after a wait), whose model was loaded and whose generator yielded no
\* oversized batch, returns normally with one request submitted per batch.
C14_CallReturnsNormally ==
  (pc = "idle" /\ lastOp = "call"
     /\ err \notin {"WaitFailed", "InvalidRequestId", "AssertionError",
                    "CalledProcessError", "StopIteration"}) =>
    /\ err = "none"
    /\ hist.nsub = Len(hist.gen)

\* C15: when the converter exits nonzero in a __call__ on a TensorFlow/Keras
\* model, __call__ raises CalledProcessError after one run of the tool:
\* exec_net stays unset, no batch is taken from the generator, no request is
\* submitted and self.outputs is unchanged, and the next __call__ runs the
\* converter again.  model.pb is removed only when the tool succeeded, after
\* the run and before model.xml and model.bin are read, so it is still in
\* model_dir after a failure.
C15_ToolFailed == pc = "idle" /\ lastOp = "call" /\ err = "CalledProcessError"

C15_Removes(steps) == \E i \in DOMAIN steps : steps[i] = "remove"

C15_AfterFailure ==
  C15_ToolFailed =>
    /\ exec_net = NoNet
    /\ slots = <<>>
    /\ hist.nfetch = 0
    /\ hist.nsub = 0
    /\ hist.gen = <<>>
    /\ outputs = <<>>
    /\ hist.tfsteps = <<"write", "run">>
    /\ "model.pb" \in model_dir

C15_RemoveOnlyOnSuccess ==
  C15_Removes(hist.tfsteps) =>
    /\ exec_net = Loaded
    /\ "model.pb" \notin model_dir
    /\ {"model.xml", "model.bin"} \subseteq model_dir
    /\ \A i \in DOMAIN hist.tfsteps :
         hist.tfsteps[i] = "remove" =>
           /\ \E j \in 1..(i - 1) : hist.tfsteps[j] = "run"
           /\ \E k \in (i + 1)..Len(hist.tfsteps) : hist.tfsteps[k] = "read"
           /\ \A k \in 1..(i - 1) : hist.tfsteps[k] # "read"

C15_FailingStep ==
  (pc = "idle" /\ hist'.ncalls = hist.ncalls + 1
     /\ pc' = "idle" /\ err' = "CalledProcessError") =>
    /\ hist'.tfsteps = <<"write", "run">>
    /\ outputs' = outputs
    /\ exec_net' = exec_net
    /\ hist'.total = hist.total

C15_NextCallStep ==
  (C15_ToolFailed /\ hist'.ncalls = hist.ncalls + 1) =>
    /\ hist'.loads = hist.loads + 1
    /\ Len(hist'.tfsteps) >= 2
    /\ hist'.tfsteps[2] = "run"

C15_ToolFailurePropagates ==
  /\ [](C15_AfterFailure /\ C15_RemoveOnlyOnSuccess)
  /\ [][C15_FailingStep /\ C15_NextCallStep]_vars

C15_Witness ==
  /\ C15_ToolFailed
  /\ modelKind = "tf"
  /\ hist.ncalls = 2
  /\ hist.loads = 2
  /\ "model.pb" \in model_dir
  /\ hist.tfsteps = <<"write", "run">>

====
